---- MODULE Spec2Model ----
(***************************************************************************)
(* tix-cli: the per-context JSON task store (tix/storage/json_storage.py), *)
(* the undo/redo history file (tix/storage/history.py) and the undo/redo   *)
(* replay of the command layer (tix/cli.py), as one state machine.         *)
(*                                                                         *)
(* Every store call is a full read-modify-write of its backing file, so a  *)
(* state is the content of the files; `last` holds the outcome of the last *)
(* call (what the caller saw) and `hlog` is the call log of the history    *)
(* test specification.                                                     *)
(***************************************************************************)
EXTENDS Integers, Sequences, FiniteSets, TLC

\* ------------------------------------------------------------------ bounds
\* ids of the tasks callers pass in: 1..MaxId
MaxId == 1
\* longest task list the appending replays (undo of delete, redo of add) may build
MaxTasks == 1
\* entries record() is let to stack up in Spec, whose history has the default limit
MaxPending == 1
\* longest bare array a pre-envelope task file holds
MaxLegacy == 2
\* SpecHistory: HistoryManager(limit=n) for n in 1..MaxLimit
MaxLimit == 3
\* SpecHistory: number of HistoryManager calls made
MaxLog == 5
MaxUndo == 2

\* history.py:8, HistoryManager.__init__(..., limit: int = 10)
DefaultLimit == 10

\* ------------------------------------------------------------- task values
Contexts == {"default", "work"}

Texts == {"a", "b"}

\* timestamps datetime.now().isoformat() can produce during a run
Stamps == {"t1", "t2"}

\* Python's None, for the string-valued optional fields
None == "None"

TaskFields ==
    {"id", "text", "priority", "completed", "created_at", "completed_at",
     "tags", "attachments", "links", "is_global"}

\* models.py Task: the dataclass fields with their defaults; created_at's default
\* factory is datetime.now().isoformat(), passed in as `now`.
FieldDefault(f, now) ==
    CASE f = "priority"     -> "medium"
      [] f = "completed"    -> FALSE
      [] f = "created_at"   -> now
      [] f = "completed_at" -> None
      [] f = "tags"         -> <<>>
      [] f = "attachments"  -> <<>>
      [] f = "links"        -> <<>>
      [] f = "is_global"    -> FALSE

\* Task(id=..., text=..., is_global=...) built by a caller at time "t0"
Task(id, text, glob) ==
    [f \in TaskFields |->
        CASE f = "id"        -> id
          [] f = "text"      -> text
          [] f = "is_global" -> glob
          [] OTHER           -> FieldDefault(f, "t0")]

\* to_dict that leaves the key links out
to_dict_without_links(t) == [f \in TaskFields \ {"links"} |-> t[f]]

\* Task.to_dict: a dictionary of exactly the ten fields
to_dict(t) == [f \in TaskFields |-> t[f]]

\* from_dict that sets the three newer fields whether they are present or not
from_dict_overwrites(d, now) ==
    [f \in TaskFields |->
        IF f \in DOMAIN d /\ f \notin {"attachments", "links", "is_global"}
        THEN d[f] ELSE FieldDefault(f, now)]

\* Task.from_dict: attachments, links and is_global are filled in when absent, then
\* cls(**data) takes every other absent field from the dataclass default. (A
\* dictionary without id or text raises TypeError; the stored dictionaries of this
\* model all carry both.)
from_dict(d, now) ==
    [f \in TaskFields |-> IF f \in DOMAIN d THEN d[f] ELSE FieldDefault(f, now)]

\* Task.mark_done at time now
mark_done(t, now) == [t EXCEPT !["completed"] = TRUE, !["completed_at"] = now]

\* the tasks callers pass to update_task and save_tasks: text "b", any id, global or not
Pool == {Task(i, "b", g) : i \in 1..MaxId, g \in BOOLEAN}

\* --------------------------------------------------------------- sequences
RECURSIVE SelectIdx(_, _, _)
\* indexes i >= from of s, in order, with s[i]["id"] = id
SelectIdx(s, id, from) ==
    IF from > Len(s) THEN <<>>
    ELSE IF s[from]["id"] = id THEN <<from>> \o SelectIdx(s, id, from + 1)
    ELSE SelectIdx(s, id, from + 1)

MapSeq(s, Op(_)) == [i \in 1..Len(s) |-> Op(s[i])]

IsGlobal(t) == t["is_global"]
NotGlobal(t) == ~t["is_global"]

MaxOf(a, b) == IF a >= b THEN a ELSE b

RECURSIVE InsertById(_, _)
\* t put into the id-sorted list s behind every element whose id is <= t's
InsertById(s, t) ==
    IF s = <<>> THEN <<t>>
    ELSE IF s[1]["id"] <= t["id"] THEN <<s[1]>> \o InsertById(Tail(s), t)
    ELSE <<t>> \o s

RECURSIVE SortedById(_)
\* sorted(tasks, key=lambda t: t.id): Python's sort is stable
SortedById(s) ==
    IF s = <<>> THEN <<>>
    ELSE InsertById(SortedById(SubSeq(s, 1, Len(s) - 1)), s[Len(s)])

\* ------------------------------------------------------------- task files
\* A task file holds the {next_id, tasks} envelope or, when an older version wrote
\* it, a bare JSON array (items). An array entry is a dictionary whose "id" is an
\* integer v (k = "int"), some other JSON value (k = "str") or absent (k = "none"),
\* or is no dictionary at all (k = "nondict").
Envelope(next_id, tasks) ==
    [fmt |-> "envelope", next_id |-> next_id, tasks |-> tasks, items |-> <<>>]

LegacyFile(items) ==
    [fmt |-> "legacy", next_id |-> 0, tasks |-> <<>>, items |-> items]

\* _ensure_file: a file that does not exist is created as the empty envelope
EmptyFile == Envelope(1, <<>>)

\* A file found in another state: removed after the store was built ("absent"),
\* text that is not JSON ("corrupt"), JSON that is neither an array nor a
\* dictionary with "tasks" and "next_id" ("other"), or bytes that are not UTF-8
\* ("undecodable")
UnusableFile(fmt) == [fmt |-> fmt, next_id |-> 0, tasks |-> <<>>, items |-> <<>>]

\* A dictionary with "tasks" and "next_id" whose "tasks" is not a list of task
\* dictionaries: a number, a string, or a list with an entry that is no
\* dictionary, lacks "text" or carries a key Task does not take
MisshapenFile(next_id) ==
    [fmt |-> "badtasks", next_id |-> next_id, tasks |-> <<>>, items |-> <<>>]

\* what a call returns or raises
Outcome(raised, normal) == IF raised # "no" THEN raised ELSE normal

RECURSIVE Upgrade(_, _, _, _)
\* _read_data on a bare array: enumerate(raw, start=1); entries that are not
\* dictionaries are skipped; an entry without a positive integer id gets its
\* position i as id; next_id becomes the largest id seen plus one.
Upgrade(raw, i, max_id, upgraded) ==
    IF i > Len(raw) THEN [next_id |-> max_id + 1, tasks |-> upgraded]
    ELSE IF raw[i].k = "nondict" THEN Upgrade(raw, i + 1, max_id, upgraded)
    ELSE LET id == IF raw[i].k = "int" /\ raw[i].v > 0 THEN raw[i].v ELSE i
         IN  Upgrade(raw, i + 1, MaxOf(max_id, id),
                     Append(upgraded, [id |-> id, text |-> raw[i].text]))

\* _read_data: the data returned and the files afterwards (a bare array is
\* rewritten as the envelope on the spot)
read_data(fs, c) ==
    IF fs[c].fmt = "legacy"
    THEN LET up == Upgrade(fs[c].items, 1, 0, <<>>)
         IN  [raised |-> "no",
              data   |-> [next_id |-> up.next_id, tasks |-> up.tasks],
              fs     |-> [fs EXCEPT ![c] = Envelope(up.next_id, up.tasks)]]
    ELSE IF fs[c].fmt = "undecodable"
    THEN \* read_text raises; only JSONDecodeError and FileNotFoundError are caught
         [raised |-> "UnicodeDecodeError",
          data   |-> [next_id |-> 1, tasks |-> <<>>], fs |-> fs]
    ELSE IF fs[c].fmt \in {"absent", "corrupt", "other"}
    THEN \* lines 69-73: the new structure is returned, nothing is written
         [raised |-> "no", data |-> [next_id |-> 1, tasks |-> <<>>], fs |-> fs]
    ELSE [raised |-> "no",
          data   |-> [next_id |-> fs[c].next_id, tasks |-> fs[c].tasks], fs |-> fs]

\* load_tasks: the local tasks, then, in a context other than default, the tasks
\* of default's file that are global. Reading default's file goes through
\* _read_data too. Building the tasks of a misshapen "tasks" entry raises
\* TypeError; for default's file, read inside try/except, the global tasks are
\* then left out.
load_tasks(fs, c, now) ==
    LET r     == read_data(fs, c)
        local == MapSeq(r.data.tasks, LAMBDA d : from_dict(d, now))
    IN  IF r.raised # "no" THEN [raised |-> r.raised, tasks |-> <<>>, fs |-> r.fs]
        ELSE IF r.fs[c].fmt = "badtasks"
        THEN [raised |-> "TypeError", tasks |-> <<>>, fs |-> r.fs]
        ELSE IF c # "default"
        THEN LET rd  == read_data(r.fs, "default")
                 dts == MapSeq(rd.data.tasks, LAMBDA d : from_dict(d, now))
             IN  IF rd.raised # "no" \/ rd.fs["default"].fmt = "badtasks"
                 THEN [raised |-> "no", tasks |-> local, fs |-> rd.fs]
                 ELSE [raised |-> "no", tasks |-> local \o SelectSeq(dts, IsGlobal),
                       fs |-> rd.fs]
        ELSE [raised |-> "no", tasks |-> local, fs |-> r.fs]

\* save_tasks without its filter: every task of the list is written
LocalOnly_unfiltered(c, tasks) == tasks

\* save_tasks, lines 99-101: outside default the global tasks are dropped
LocalOnly(c, tasks) ==
    IF c # "default" THEN SelectSeq(tasks, NotGlobal) ELSE tasks

\* a save_tasks that writes the global tasks of the list back to default's file
save_tasks_writing_back(fs, c, tasks) ==
    LET r   == read_data(fs, c)
        own == [r.fs EXCEPT ![c] =
                   Envelope(r.data.next_id, MapSeq(LocalOnly(c, tasks), to_dict))]
        d   == read_data(own, "default")
    IN  IF c = "default" THEN own
        ELSE [d.fs EXCEPT !["default"] =
                 Envelope(d.data.next_id,
                          SelectSeq(d.data.tasks, LAMBDA t : ~("is_global" \in DOMAIN t /\ t["is_global"]))
                              \o MapSeq(SelectSeq(tasks, IsGlobal), to_dict))]

\* save_tasks: the files afterwards; next_id is written back as it was read, and
\* nothing is written when the read raises
save_tasks(fs, c, tasks) ==
    LET r == read_data(fs, c)
    IN  IF r.raised # "no" THEN r.fs
        ELSE [r.fs EXCEPT ![c] =
                 Envelope(r.data.next_id, MapSeq(LocalOnly(c, tasks), to_dict))]

\* get_task: the first task of the loaded list with that id, as a list of 0 or 1
get_task(fs, c, id, now) ==
    LET l   == load_tasks(fs, c, now)
        hit == SelectIdx(l.tasks, id, 1)
    IN  [raised |-> l.raised,
         ret |-> IF hit = <<>> THEN <<>> ELSE <<l.tasks[hit[1]]>>, fs |-> l.fs]

\* an update_task that adds the task when no task has its id
update_task_upsert(fs, c, task, now) ==
    LET l   == load_tasks(fs, c, now)
        hit == SelectIdx(l.tasks, task["id"], 1)
    IN  IF hit = <<>> THEN save_tasks(l.fs, c, Append(l.tasks, task))
        ELSE save_tasks(l.fs, c, [l.tasks EXCEPT ![hit[1]] = task])

\* update_task: the first task with task's id is replaced and the list saved;
\* nothing is saved when no task has that id or load_tasks raises
update_task(fs, c, task, now) ==
    LET l   == load_tasks(fs, c, now)
        hit == SelectIdx(l.tasks, task["id"], 1)
    IN  IF hit = <<>> THEN l.fs
        ELSE save_tasks(l.fs, c, [l.tasks EXCEPT ![hit[1]] = task])

\* delete_task: every task with that id leaves the loaded list; the list is saved
\* and True returned when it got shorter
delete_task(fs, c, id, now) ==
    LET l         == load_tasks(fs, c, now)
        new_tasks == SelectSeq(l.tasks, LAMBDA t : t["id"] # id)
    IN  IF Len(new_tasks) < Len(l.tasks)
        THEN [raised |-> l.raised, ret |-> TRUE, fs |-> save_tasks(l.fs, c, new_tasks)]
        ELSE [raised |-> l.raised, ret |-> FALSE, fs |-> l.fs]

\* add_task: line 108 reads the file, line 110 builds the Task with due=duek; duek
\* is bound nowhere, so the call raises NameError there and lines 113-121 (the
\* redirect of a global task, the append, next_id + 1, the write) never run.
add_task(fs, c, text, glob) ==
    LET r == read_data(fs, c)
    IN  [raised |-> Outcome(r.raised, "NameError"), ret |-> <<>>, fs |-> r.fs]

\* the ids of a file's stored tasks, in order
StoredIds(f) == [i \in 1..Len(f.tasks) |-> f.tasks[i]["id"]]

\* the done command on the store of context c: the task is fetched, marked done
\* and handed to update_task, unless it is missing or already completed
done(fs, c, task_id, now) ==
    LET g == get_task(fs, c, task_id, now)
    IN  IF g.raised # "no" THEN [out |-> g.raised, fs |-> g.fs]
        ELSE IF g.ret = <<>> THEN [out |-> "not found", fs |-> g.fs]
        ELSE IF g.ret[1]["completed"] THEN [out |-> "already completed", fs |-> g.fs]
        ELSE [out |-> "completed",
              fs  |-> update_task(g.fs, c, mark_done(g.ret[1], now), now)]

\* whether a stored dictionary is a global task (a missing is_global reads False)
StoredGlobal(d) == "is_global" \in DOMAIN d /\ d["is_global"]

\* ------------------------------------------------------------ history file
\* HistoryManager: {"undo": [...], "redo": [...]}; an operation is
\* {"op": add|update|delete, "before": dict or None, "after": dict or None}, with
\* None written as the empty list and a dictionary as a list of one.
Operation(kind, before, after) == [op |-> kind, before |-> before, after |-> after]

EmptyHistory == [undo |-> <<>>, redo |-> <<>>]

\* history.json found in another state: removed after the manager was built
\* ("absent"), text that is not JSON ("corrupt"), or a JSON dictionary without
\* the keys "undo" and "redo" ("other")
BrokenHistory(fmt) == [broken |-> fmt, undo |-> <<>>, redo |-> <<>>]

\* HistoryManager._read_data and the first use of its result: no exception is
\* caught, so read_text raises FileNotFoundError, json.loads raises
\* JSONDecodeError and data["undo"] or data["redo"] raises KeyError
history_read_data(h) ==
    IF "broken" \notin DOMAIN h THEN "no"
    ELSE CASE h.broken = "absent"  -> "FileNotFoundError"
           [] h.broken = "corrupt" -> "JSONDecodeError"
           [] h.broken = "other"   -> "KeyError"

\* record that leaves the redo stack as it was
record_keeps_redo(h, operation, lim) ==
    LET pushed == Append(h.undo, operation)
    IN  [undo |-> IF Len(pushed) > lim THEN Tail(pushed) ELSE pushed,
         redo |-> h.redo]

\* record that drops the newest entry, pop() in place of pop(0)
record_drops_newest(h, operation, lim) ==
    LET pushed == Append(h.undo, operation)
    IN  [undo |-> IF Len(pushed) > lim THEN SubSeq(pushed, 1, Len(pushed) - 1) ELSE pushed,
         redo |-> <<>>]

\* record that never drops an entry
record_without_limit(h, operation, lim) ==
    [undo |-> Append(h.undo, operation), redo |-> <<>>]

\* record: append to undo, drop the oldest entry beyond the limit, clear redo
record(h, operation, lim) ==
    LET pushed == Append(h.undo, operation)
    IN  [undo |-> IF Len(pushed) > lim THEN Tail(pushed) ELSE pushed,
         redo |-> <<>>]

\* pop_undo that takes the oldest entry, pop(0) in place of pop()
pop_undo_oldest(h) ==
    IF h.undo = <<>> THEN [ret |-> <<>>, h |-> h]
    ELSE [ret |-> <<Head(h.undo)>>,
          h   |-> [undo |-> Tail(h.undo), redo |-> Append(h.redo, Head(h.undo))]]

\* pop_undo that starts the redo stack afresh
pop_undo_clears_redo(h) ==
    IF h.undo = <<>> THEN [ret |-> <<>>, h |-> h]
    ELSE LET op == h.undo[Len(h.undo)]
         IN  [ret |-> <<op>>,
              h   |-> [undo |-> SubSeq(h.undo, 1, Len(h.undo) - 1), redo |-> <<op>>]]

\* pop_undo: None on an empty undo stack, else its last entry moves onto redo
pop_undo(h) ==
    IF h.undo = <<>> THEN [ret |-> <<>>, h |-> h]
    ELSE LET op == h.undo[Len(h.undo)]
         IN  [ret |-> <<op>>,
              h   |-> [undo |-> SubSeq(h.undo, 1, Len(h.undo) - 1),
                       redo |-> Append(h.redo, op)]]

\* pop_redo that leaves the entry on the redo stack
pop_redo_keeps_entry(h) ==
    IF h.redo = <<>> THEN [ret |-> <<>>, h |-> h]
    ELSE LET op == h.redo[Len(h.redo)]
         IN  [ret |-> <<op>>, h |-> [undo |-> Append(h.undo, op), redo |-> h.redo]]

\* pop_redo: None on an empty redo stack, else its last entry moves onto undo
pop_redo(h) ==
    IF h.redo = <<>> THEN [ret |-> <<>>, h |-> h]
    ELSE LET op == h.redo[Len(h.redo)]
         IN  [ret |-> <<op>>,
              h   |-> [undo |-> Append(h.undo, op),
                       redo |-> SubSeq(h.redo, 1, Len(h.redo) - 1)]]

\* ------------------------------------------------------------ undo / redo
\* cli.py calls storage.update_task(..., record_history=False) and
\* storage.delete_task(..., record_history=False); TaskStorage.update_task(self,
\* task) and TaskStorage.delete_task(self, task_id) take no such keyword, so these
\* calls raise TypeError before the store reads anything.

\* apply_inverse (undo): only the delete branch reaches the store
apply_inverse(fs, c, op, now) ==
    IF op.op = "delete"
    THEN LET l == load_tasks(fs, c, now)
             restored_task == from_dict(op.before[1], now)
         IN  [raised |-> l.raised,
              fs |-> save_tasks(l.fs, c, SortedById(Append(l.tasks, restored_task)))]
    ELSE [raised |-> "TypeError", fs |-> fs]

\* apply (redo): only the add branch reaches the store
apply(fs, c, op, now) ==
    IF op.op = "add"
    THEN LET l == load_tasks(fs, c, now)
             restored_task == from_dict(op.after[1], now)
         IN  [raised |-> l.raised,
              fs |-> save_tasks(l.fs, c, SortedById(Append(l.tasks, restored_task)))]
    ELSE [raised |-> "TypeError", fs |-> fs]

\* ------------------------------------------------------- context registry
\* ContextStorage: contexts.json holds {"contexts": [...]}; the active_context
\* file holds the name of the active context. A name is a string; "work " is
\* "work" followed by a blank.
Names == {"default", "work", "Work", "work "}

Descriptions == {None, "Work tasks"}

\* str.strip() on the names of Names
Strip(n) == IF n = "work " THEN "work" ELSE n

\* name.replace('_', '').replace('-', '').isalnum() on the names of Names
IsValidName(n) == n # "work "

\* Context(name=..., description=...): created_at is the time of construction
Context(name, description, now) ==
    [name |-> name, created_at |-> now, description |-> description]

DefaultContext(now) == Context("default", "Default context", now)

\* contexts.json: absent, not JSON ("corrupt"), JSON that is no dictionary with
\* the key "contexts" ("other"), or {"contexts": [...]}
RegistryFile(contexts) == [fmt |-> "registry", contexts |-> contexts]

BrokenRegistry(fmt) == [fmt |-> fmt, contexts |-> <<>>]

\* the file _ensure_file writes when there is none
FreshRegistry == RegistryFile(<<DefaultContext("t0")>>)

\* the active_context file: absent, text, or bytes that are no UTF-8 text
ActAbsent == [st |-> "absent", txt |-> ""]

ActText(name) == [st |-> "text", txt |-> name]

ActUnreadable == [st |-> "unreadable", txt |-> ""]

\* ContextStorage._read_data and load_contexts: the contexts of the file, or the
\* default context alone when the file is absent, corrupt or of another shape
load_contexts(r, now) ==
    IF r.fmt = "registry" THEN r.contexts ELSE <<DefaultContext(now)>>

\* save_contexts
save_contexts(contexts) == RegistryFile(contexts)

ContextNames(contexts) == {contexts[i].name : i \in 1..Len(contexts)}

\* add_context that compares names without regard to case
SameName_ignoring_case(a, b) == a = b \/ {a, b} = {"work", "Work"}

\* c.name == name
SameName(a, b) == a = b

\* add_context: ValueError when the name is registered, else the context is
\* appended and returned
add_context(r, name, description, now) ==
    LET contexts == load_contexts(r, now)
    IN  IF \E i \in 1..Len(contexts) : SameName(contexts[i].name, name)
        THEN [raised |-> "ValueError", ret |-> <<>>, reg |-> r]
        ELSE LET new_context == Context(name, description, now)
             IN  [raised |-> "no", ret |-> <<new_context>>,
                  reg |-> save_contexts(Append(contexts, new_context))]

\* get_context: the first context with the name, or None
get_context(r, name, now) ==
    LET contexts == load_contexts(r, now)
        hits == SelectSeq(contexts, LAMBDA c : c.name = name)
    IN  IF hits = <<>> THEN <<>> ELSE <<hits[1]>>

\* a check that finds no name registered
context_exists_never(r, name, now) == FALSE

\* context_exists: get_context(name) is not None
context_exists(r, name, now) == get_context(r, name, now) # <<>>

\* get_active_context: the stripped text of the file, "default" when the file is
\* absent; any other failure of read_text is not caught
get_active_context(a) ==
    CASE a.st = "absent" -> [raised |-> "no", ret |-> "default"]
      [] a.st = "text" -> [raised |-> "no", ret |-> Strip(a.txt)]
      [] OTHER -> [raised |-> "UnicodeDecodeError", ret |-> ""]

\* set_active_context: ValueError when the name is not registered, else the name
\* is written to the file
set_active_context(r, a, name, now) ==
    IF get_context(r, name, now) = <<>>
    THEN [raised |-> "ValueError", active |-> a]
    ELSE [raised |-> "no", active |-> ActText(name)]

\* the active pointer after a deletion that never resets it
ResetActive_never(r, a, name, now) == [raised |-> "no", active |-> a]

\* delete_context, lines 87-89: after the deletion was saved, the active pointer
\* is set to default if it named the deleted context
ResetActive(r, a, name, now) ==
    LET cur == get_active_context(a)
    IN  IF cur.raised # "no" THEN [raised |-> cur.raised, active |-> a]
        ELSE IF cur.ret = name THEN set_active_context(r, a, "default", now)
        ELSE [raised |-> "no", active |-> a]

\* the filter of delete_context comparing names without regard to case
WithoutName_ignoring_case(contexts, name) ==
    SelectSeq(contexts, LAMBDA c : ~SameName_ignoring_case(c.name, name))

\* delete_context, line 82: [c for c in contexts if c.name != name]
WithoutName(contexts, name) == SelectSeq(contexts, LAMBDA c : c.name # name)

\* a guard that lets every name through
IsDefault_never(name) == FALSE

\* name == "default"
IsDefault(name) == name = "default"

\* delete_context: ValueError for default; False when the name is not
\* registered; else the contexts without it are saved and True is returned
delete_context(r, a, name, now) ==
    IF IsDefault(name)
    THEN [raised |-> "ValueError", ret |-> FALSE, reg |-> r, active |-> a]
    ELSE LET contexts     == load_contexts(r, now)
             new_contexts == WithoutName(contexts, name)
         IN  IF Len(new_contexts) < Len(contexts)
             THEN LET saved == save_contexts(new_contexts)
                      reset == ResetActive(saved, a, name, now)
                  IN  [raised |-> reset.raised, ret |-> reset.raised = "no",
                       reg |-> saved, active |-> reset.active]
             ELSE [raised |-> "no", ret |-> FALSE, reg |-> r, active |-> a]

\* the variable obj when no object is in hand
NoObject == [kind |-> "none", val |-> <<>>, src |-> <<>>]

\* the processes that run add_task side by side
Procs == {"p1", "p2"}

\* a process in its add_task call on context c: pc is "idle" before the call,
\* "read" once line 108 read the file, "returned" or "raised" at its end; new_id
\* is the next_id it read, early tells that no other process had finished when
\* it read, ret is the task returned
Process(pc, c, new_id, early, ret) ==
    [pc |-> pc, ctx |-> c, new_id |-> new_id, early |-> early, ret |-> ret]

\* no add_task call under way
NoProcs == [p \in Procs |-> Process("idle", "default", 0, FALSE, <<>>)]

\* ------------------------------------------------------------------- state
VARIABLES
    files,   \* context name -> content of its task file (tasks.json, contexts/<name>.json)
    hist,    \* content of history.json
    limit,   \* HistoryManager.limit
    last,    \* the last call: what was called, on which context, and what came back
    hlog,    \* SpecHistory: the HistoryManager calls made so far, with their operations
    reg,     \* content of contexts.json
    active,  \* content of the active_context file
    ctxfiles,\* the names n for which a task file contexts/<n>.json exists
    obj,     \* SpecModels: the Task object or the dictionary in hand
    procs    \* SpecRace: how far each process is in its add_task call

vars == <<files, hist, limit, last, hlog, reg, active, ctxfiles, obj, procs>>

\* what a caller sees of a call: out is "ok", "None", "True", "False" or the
\* exception raised; glob is add_task's is_global argument
Call(name, c, out, glob) == [call |-> name, ctx |-> c, out |-> out, glob |-> glob]

\* ------------------------------------------------------------------ inputs
RECURSIVE SeqsUpTo(_, _)
SeqsUpTo(S, n) ==
    IF n = 0 THEN {<<>>}
    ELSE LET shorter == SeqsUpTo(S, n - 1)
         IN  shorter \cup {Append(q, x) : q \in shorter, x \in S}

\* entries of a bare-array file: ids 0..MaxId, a non-integer id, no id, no dictionary
LegacyItems ==
    {[k |-> "int", v |-> n, text |-> "a"] : n \in 0..MaxId}
        \cup {[k |-> kk, v |-> 0, text |-> "a"] : kk \in {"str", "none", "nondict"}}

\* the file a store finds: a bare array left by an older version
LegacyFiles == {LegacyFile(q) : q \in SeqsUpTo(LegacyItems, MaxLegacy)}

\* bare arrays whose entries carry the ids 1..n in order
OldFiles ==
    {LegacyFile([i \in 1..n |-> [k |-> "int", v |-> i, text |-> "a"]]) : n \in 0..MaxId}

\* the lists a direct caller hands to save_tasks: empty, or one task
SaveLists == {<<>>} \cup {<<t>> : t \in Pool}

\* operations on the task with id i, global or not: its add, its delete, the
\* update of its text from "a" to "b"
OpsOn(i, g) ==
    {Operation("add", <<>>, <<to_dict(Task(i, "b", g))>>),
     Operation("delete", <<to_dict(Task(i, "b", g))>>, <<>>),
     Operation("update", <<to_dict(Task(i, "a", g))>>, <<to_dict(Task(i, "b", g))>>)}

\* the operations a recording caller passes to record: those on task 1
OpInputs == OpsOn(1, FALSE) \cup OpsOn(1, TRUE)

\* ----------------------------------------------------------- store actions
\* TaskStorage(context=c).add_task(text, is_global=glob)
AddTask(c, text, glob) ==
    LET r == add_task(files, c, text, glob)
    IN  /\ files' = r.fs
        /\ last' = Call("add_task", c, r.raised, glob)
        /\ UNCHANGED <<hist, limit, hlog, reg, active, ctxfiles, obj, procs>>

\* TaskStorage(context=c).load_tasks()
Load(c, now) ==
    /\ files' = load_tasks(files, c, now).fs
    /\ last' = Call("load_tasks", c, Outcome(load_tasks(files, c, now).raised, "ok"), FALSE)
    /\ UNCHANGED <<hist, limit, hlog, reg, active, ctxfiles, obj, procs>>

\* TaskStorage(context=c).get_task(id)
Get(c, id, now) ==
    LET g == get_task(files, c, id, now)
    IN  /\ files' = g.fs
        /\ last' = Call("get_task", c,
                         Outcome(g.raised, IF g.ret = <<>> THEN "None" ELSE "ok"), FALSE)
        /\ UNCHANGED <<hist, limit, hlog, reg, active, ctxfiles, obj, procs>>

\* TaskStorage(context=c).save_tasks(tasks)
Save(c, tasks) ==
    /\ files' = save_tasks(files, c, tasks)
    /\ last' = Call("save_tasks", c, Outcome(read_data(files, c).raised, "ok"), FALSE)
    /\ UNCHANGED <<hist, limit, hlog, reg, active, ctxfiles, obj, procs>>

\* TaskStorage(context=c).update_task(task)
Update(c, task, now) ==
    /\ files' = update_task(files, c, task, now)
    /\ last' = Call("update_task", c, Outcome(load_tasks(files, c, now).raised, "ok"), FALSE)
    /\ UNCHANGED <<hist, limit, hlog, reg, active, ctxfiles, obj, procs>>

\* TaskStorage(context=c).delete_task(id)
Delete(c, id, now) ==
    LET d == delete_task(files, c, id, now)
    IN  /\ files' = d.fs
        /\ last' = Call("delete_task", c,
                         Outcome(d.raised, IF d.ret THEN "True" ELSE "False"), FALSE)
        /\ UNCHANGED <<hist, limit, hlog, reg, active, ctxfiles, obj, procs>>

\* ----------------------------------------------------------- command layer
\* history.record(operation), as the recording caller of the command layer does
Record(operation) ==
    /\ Len(hist.undo) < MaxPending
    /\ hist' = record(hist, operation, limit)
    /\ last' = Call("record", "default", "ok", FALSE)
    /\ UNCHANGED <<files, limit, hlog, reg, active, ctxfiles, obj, procs>>

\* tix undo, run while c is the active context (storage = TaskStorage())
Undo(c, now) ==
    LET p == pop_undo(hist)
    IN  /\ hist' = p.h
        /\ IF p.ret = <<>>
           THEN /\ files' = files
                /\ last' = Call("undo", c, "None", FALSE)
           ELSE LET r == apply_inverse(files, c, p.ret[1], now)
                IN  /\ Len(r.fs[c].tasks) <= MaxTasks
                    /\ files' = r.fs
                    /\ last' = Call("undo", c, r.raised, FALSE)
        /\ UNCHANGED <<limit, hlog, reg, active, ctxfiles, obj, procs>>

\* tix redo, run while c is the active context
Redo(c, now) ==
    LET p == pop_redo(hist)
    IN  /\ hist' = p.h
        /\ IF p.ret = <<>>
           THEN /\ files' = files
                /\ last' = Call("redo", c, "None", FALSE)
           ELSE LET r == apply(files, c, p.ret[1], now)
                IN  /\ Len(r.fs[c].tasks) <= MaxTasks
                    /\ files' = r.fs
                    /\ last' = Call("redo", c, r.raised, FALSE)
        /\ UNCHANGED <<limit, hlog, reg, active, ctxfiles, obj, procs>>

\* the command layer on a fresh installation: every task file is created empty,
\* the history is HistoryManager()
Init ==
    /\ files = [c \in Contexts |-> EmptyFile]
    /\ hist = EmptyHistory
    /\ limit = DefaultLimit
    /\ last = Call("init", "default", "ok", FALSE)
    /\ hlog = <<>>
    /\ reg = FreshRegistry
    /\ active = ActText("default")
    /\ ctxfiles = {}
    /\ obj = NoObject
    /\ procs = NoProcs

\* No task file of Spec holds a dictionary without created_at (none starts as a
\* bare array), so the time of a call shows nowhere: one stamp stands for all.
Next ==
    \/ \E c \in Contexts, g \in BOOLEAN : AddTask(c, "b", g)
    \/ \E c \in Contexts, tasks \in SaveLists : Save(c, tasks)
    \/ \E c \in Contexts, t \in Pool : Update(c, t, "t1")
    \/ \E c \in Contexts, id \in 1..MaxId : Delete(c, id, "t1")
    \/ \E o \in OpInputs : Record(o)
    \/ \E c \in Contexts : Undo(c, "t1")
    \/ \E c \in Contexts : Redo(c, "t1")

Spec == Init /\ [][Next]_vars

\* the done command with the store on context c
Done(c, task_id, now) ==
    LET r == done(files, c, task_id, now)
    IN  /\ files' = r.fs
        /\ last' = Call("done", c, r.out, FALSE)
        /\ UNCHANGED <<hist, limit, hlog, reg, active, ctxfiles, obj, procs>>

\* ----------------------------------------------------------- the add command
\* the task argument of tix add: empty, blanks only, or a text
Arguments == {"", "   ", "a"}

\* str.strip() on the texts of Arguments
StripText(x) == IF x = "   " THEN "" ELSE x

\* a test that lets a text of blanks pass
IsBlank_empty_only(task) == task = ""

\* not task or not task.strip()
IsBlank(task) == task = "" \/ StripText(task) = ""

\* tix add on the store of context c: a blank text ends the command by
\* sys.exit(1) before the store is touched; otherwise storage.add_task is
\* called, which raises, so the lines after it never run
add(fs, c, task) ==
    IF IsBlank(task) THEN [out |-> "SystemExit", fs |-> fs]
    ELSE LET r == add_task(fs, c, task, FALSE)
         IN  [out |-> r.raised, fs |-> r.fs]

Add(c, task) ==
    LET r == add(files, c, task)
    IN  /\ files' = r.fs
        /\ last' = Call("add", c, r.out, FALSE)
        /\ UNCHANGED <<hist, limit, hlog, reg, active, ctxfiles, obj, procs>>

\* the add command among saves and recorded operations, from a fresh installation
NextAdd ==
    \/ \E c \in Contexts, task \in Arguments : Add(c, task)
    \/ \E c \in Contexts, tasks \in SaveLists : Save(c, tasks)
    \/ \E o \in OpInputs : Record(o)
    \/ \E c \in Contexts : Undo(c, "t1")

SpecAdd == Init /\ [][NextAdd]_vars

\* --------------------------------------------------- the store on old files
\* Each context's file is created empty or is a bare array an older version left.
InitStore ==
    /\ files \in [Contexts -> {EmptyFile} \cup OldFiles]
    /\ hist = EmptyHistory
    /\ limit = DefaultLimit
    /\ last = Call("init", "default", "ok", FALSE)
    /\ hlog = <<>>
    /\ reg = FreshRegistry
    /\ active = ActText("default")
    /\ ctxfiles = {}
    /\ obj = NoObject
    /\ procs = NoProcs

NextStore ==
    \/ \E c \in Contexts, x \in Texts, g \in BOOLEAN : AddTask(c, x, g)
    \/ \E c \in Contexts, now \in Stamps : Load(c, now)
    \/ \E c \in Contexts, id \in 1..MaxId, now \in Stamps : Get(c, id, now)
    \/ \E c \in Contexts, tasks \in SaveLists : Save(c, tasks)
    \/ \E c \in Contexts, t \in Pool, now \in Stamps : Update(c, t, now)
    \/ \E c \in Contexts, id \in 1..MaxId, now \in Stamps : Delete(c, id, now)
    \/ \E c \in Contexts, id \in 1..MaxId, now \in Stamps : Done(c, id, now)

SpecStore == InitStore /\ [][NextStore]_vars

\* ------------------------------------------------- the store on broken files
\* the states other than envelope and bare array a task file is found in
BrokenFiles ==
    {UnusableFile(fmt) : fmt \in {"absent", "corrupt", "other", "undecodable"}}
        \cup {MisshapenFile(n) : n \in 1..(MaxId + 1)}

\* a file the store wrote: empty, or one task of Pool
WrittenFiles == {EmptyFile} \cup {Envelope(t["id"] + 1, <<to_dict(t)>>) : t \in Pool}

\* One context's file is broken, the other is one the store wrote.
InitBroken ==
    /\ \E c \in Contexts, f \in BrokenFiles, g \in WrittenFiles :
           files = [x \in Contexts |-> IF x = c THEN f ELSE g]
    /\ hist = EmptyHistory
    /\ limit = DefaultLimit
    /\ last = Call("init", "default", "ok", FALSE)
    /\ hlog = <<>>
    /\ reg = FreshRegistry
    /\ active = ActText("default")
    /\ ctxfiles = {}
    /\ obj = NoObject
    /\ procs = NoProcs

NextBroken ==
    \/ \E c \in Contexts : Load(c, "t1")
    \/ \E c \in Contexts, id \in 1..MaxId : Get(c, id, "t1")
    \/ \E c \in Contexts, tasks \in SaveLists : Save(c, tasks)
    \/ \E c \in Contexts, t \in Pool : Update(c, t, "t1")
    \/ \E c \in Contexts, id \in 1..MaxId : Delete(c, id, "t1")
    \/ \E c \in Contexts, x \in Texts, g \in BOOLEAN : AddTask(c, x, g)

SpecBroken == InitBroken /\ [][NextBroken]_vars

\* ------------------------------------------- two processes in add_task
\* add_task, line 108: the process reads the file and takes its next_id
AddRead(p) ==
    LET c == procs[p].ctx
        r == read_data(files, c)
        early == \A q \in Procs \ {p} : procs[q].pc \in {"idle", "read"}
    IN  /\ procs[p].pc = "idle"
        /\ files' = r.fs
        /\ IF r.raised # "no"
           THEN /\ procs' = [procs EXCEPT ![p] = Process("raised", c, 0, early, <<>>)]
                /\ last' = Call("add_task", c, r.raised, FALSE)
           ELSE /\ procs' = [procs EXCEPT ![p] =
                                Process("read", c, r.data.next_id, early, <<>>)]
                /\ last' = last
        /\ UNCHANGED <<hist, limit, hlog, reg, active, ctxfiles, obj>>

\* add_task, line 110: Task(..., due=duek) raises NameError, so the append, the
\* next_id + 1 and the write of lines 118-121 are never reached
AddBuild(p) ==
    /\ procs[p].pc = "read"
    /\ procs' = [procs EXCEPT ![p] =
                    Process("raised", procs[p].ctx, procs[p].new_id, procs[p].early, <<>>)]
    /\ last' = Call("add_task", procs[p].ctx, "NameError", FALSE)
    /\ UNCHANGED <<files, hist, limit, hlog, reg, active, ctxfiles, obj>>

\* Both processes are about to call add_task on the same context; the files are
\* as the store created or wrote them, or bare arrays.
InitRace ==
    /\ files \in [Contexts -> OldFiles \cup WrittenFiles]
    /\ hist = EmptyHistory
    /\ limit = DefaultLimit
    /\ last = Call("init", "default", "ok", FALSE)
    /\ hlog = <<>>
    /\ reg = FreshRegistry
    /\ active = ActText("default")
    /\ ctxfiles = {}
    /\ obj = NoObject
    /\ \E c \in Contexts : procs = [p \in Procs |-> Process("idle", c, 0, FALSE, <<>>)]

NextRace ==
    \/ \E p \in Procs : AddRead(p)
    \/ \E p \in Procs : AddBuild(p)

SpecRace == InitRace /\ [][NextRace]_vars

\* ------------------------------------------------ reading a bare-array file
\* One context's file is a bare array of any shape, the other is created empty.
InitLegacy ==
    /\ \E c \in Contexts, f \in LegacyFiles :
           files = [x \in Contexts |-> IF x = c THEN f ELSE EmptyFile]
    /\ hist = EmptyHistory
    /\ limit = DefaultLimit
    /\ last = Call("init", "default", "ok", FALSE)
    /\ hlog = <<>>
    /\ reg = FreshRegistry
    /\ active = ActText("default")
    /\ ctxfiles = {}
    /\ obj = NoObject
    /\ procs = NoProcs

NextLegacy ==
    \/ \E c \in Contexts, now \in Stamps : Load(c, now)
    \/ \E c \in Contexts, id \in 1..MaxId, now \in Stamps : Get(c, id, now)
    \/ \E c \in Contexts, x \in Texts, g \in BOOLEAN : AddTask(c, x, g)

SpecLegacy == InitLegacy /\ [][NextLegacy]_vars

\* ------------------------------------------------- the history file alone
\* A test of HistoryManager(limit=n): record, pop_undo and pop_redo called in any
\* order, each call logged with the operation it was given or gave back.
HistOps == OpsOn(1, FALSE)

Logged(name, op) == [call |-> name, op |-> op]

HRecord(operation) ==
    /\ Len(hlog) < MaxLog
    /\ IF history_read_data(hist) # "no"
       THEN hist' = hist /\ hlog' = hlog
       ELSE /\ hist' = record(hist, operation, limit)
            /\ hlog' = Append(hlog, Logged("record", <<operation>>))
    /\ last' = Call("record", "default", Outcome(history_read_data(hist), "ok"), FALSE)
    /\ UNCHANGED <<files, limit, reg, active, ctxfiles, obj, procs>>

HPopUndo ==
    LET p == pop_undo(hist)
    IN  /\ Len(hlog) < MaxLog
        /\ IF history_read_data(hist) # "no"
           THEN hist' = hist /\ hlog' = hlog
           ELSE /\ hist' = p.h
                /\ hlog' = Append(hlog, Logged("pop_undo", p.ret))
        /\ last' = Call("pop_undo", "default",
                         Outcome(history_read_data(hist),
                                 IF p.ret = <<>> THEN "None" ELSE "ok"), FALSE)
        /\ UNCHANGED <<files, limit, reg, active, ctxfiles, obj, procs>>

HPopRedo ==
    LET p == pop_redo(hist)
    IN  /\ Len(hlog) < MaxLog
        /\ IF history_read_data(hist) # "no"
           THEN hist' = hist /\ hlog' = hlog
           ELSE /\ hist' = p.h
                /\ hlog' = Append(hlog, Logged("pop_redo", p.ret))
        /\ last' = Call("pop_redo", "default",
                         Outcome(history_read_data(hist),
                                 IF p.ret = <<>> THEN "None" ELSE "ok"), FALSE)
        /\ UNCHANGED <<files, limit, reg, active, ctxfiles, obj, procs>>

InitHistory ==
    /\ files = [c \in Contexts |-> EmptyFile]
    /\ hist = EmptyHistory
    /\ limit \in (1..MaxLimit) \cup {DefaultLimit}
    /\ last = Call("init", "default", "ok", FALSE)
    /\ hlog = <<>>
    /\ reg = FreshRegistry
    /\ active = ActText("default")
    /\ ctxfiles = {}
    /\ obj = NoObject
    /\ procs = NoProcs

NextHistory ==
    \/ \E o \in HistOps : HRecord(o)
    \/ HPopUndo
    \/ HPopRedo

SpecHistory == InitHistory /\ [][NextHistory]_vars

\* ------------------------------------------- the manager on a broken file
\* history.json is as HistoryManager() created it or is found broken
InitHistoryFiles ==
    /\ files = [c \in Contexts |-> EmptyFile]
    /\ hist \in {EmptyHistory} \cup {BrokenHistory(f) : f \in {"absent", "corrupt", "other"}}
    /\ limit = DefaultLimit
    /\ last = Call("init", "default", "ok", FALSE)
    /\ hlog = <<>>
    /\ reg = FreshRegistry
    /\ active = ActText("default")
    /\ ctxfiles = {}
    /\ obj = NoObject
    /\ procs = NoProcs

SpecHistoryFiles == InitHistoryFiles /\ [][NextHistory]_vars

\* ------------------------------------------------- replay of several entries
\* the undo stack holds up to MaxUndo recorded operations on task 1, the task
\* files are as created
InitReplay ==
    /\ files = [c \in Contexts |-> EmptyFile]
    /\ \E u \in SeqsUpTo(HistOps, MaxUndo) : hist = [undo |-> u, redo |-> <<>>]
    /\ limit = DefaultLimit
    /\ last = Call("init", "default", "ok", FALSE)
    /\ hlog = <<>>
    /\ reg = FreshRegistry
    /\ active = ActText("default")
    /\ ctxfiles = {}
    /\ obj = NoObject
    /\ procs = NoProcs

NextReplay ==
    \/ \E c \in Contexts : Undo(c, "t1")
    \/ \E c \in Contexts : Redo(c, "t1")
    \/ \E o \in HistOps : Record(o)

SpecReplay == InitReplay /\ [][NextReplay]_vars

\* ------------------------------------------------ the context registry
\* tix context rename (commands/context.py): the outcome printed, the registry,
\* the active pointer and the task files of contexts/ afterwards
rename_context(r, a, cf, old_name, new_name, now) ==
    LET same == [out |-> "refused", reg |-> r, active |-> a, ctxfiles |-> cf]
    IN  IF IsDefault(old_name) THEN same
        ELSE IF ~IsValidName(new_name) THEN same
        ELSE IF context_exists(r, new_name, now) THEN same
        ELSE IF get_context(r, old_name, now) = <<>> THEN same
        ELSE LET contexts == load_contexts(r, now)
                 first    == CHOOSE i \in 1..Len(contexts) :
                                 /\ contexts[i].name = old_name
                                 /\ \A k \in 1..(i - 1) : contexts[k].name # old_name
                 renamed  == [contexts EXCEPT ![first].name = new_name]
                 saved    == save_contexts(renamed)
                 moved    == IF old_name \in cf
                             THEN (cf \ {old_name}) \cup {new_name} ELSE cf
                 cur      == get_active_context(a)
             IN  IF cur.raised # "no"
                 THEN [out |-> cur.raised, reg |-> saved, active |-> a, ctxfiles |-> moved]
                 ELSE IF cur.ret = old_name
                 THEN LET set == set_active_context(saved, a, new_name, now)
                      IN  [out |-> IF set.raised = "no" THEN "ok" ELSE set.raised,
                           reg |-> saved, active |-> set.active, ctxfiles |-> moved]
                 ELSE [out |-> "ok", reg |-> saved, active |-> a, ctxfiles |-> moved]

\* tix context switch (commands/context.py): after set_active_context the task
\* store of the context is opened, which creates its file
switch_context(r, a, cf, name, now) ==
    LET cur == get_active_context(a)
    IN  IF cur.raised # "no"
        THEN [out |-> cur.raised, active |-> a, ctxfiles |-> cf]
        ELSE IF cur.ret = name
        THEN [out |-> "already", active |-> a, ctxfiles |-> cf]
        ELSE LET set == set_active_context(r, a, name, now)
             IN  IF set.raised # "no"
                 THEN [out |-> set.raised, active |-> a, ctxfiles |-> cf]
                 ELSE [out |-> "ok", active |-> set.active,
                       ctxfiles |-> IF name = "default" THEN cf ELSE cf \cup {name}]

\* ContextStorage.load_contexts()
LoadContexts(now) ==
    /\ last' = Call("load_contexts", "", "ok", FALSE)
    /\ UNCHANGED <<files, hist, limit, hlog, reg, active, ctxfiles, obj, procs>>

\* ContextStorage.get_active_context(): last.ctx is the name returned
GetActive ==
    LET g == get_active_context(active)
    IN  /\ last' = Call("get_active_context", g.ret, g.raised, FALSE)
        /\ UNCHANGED <<files, hist, limit, hlog, reg, active, ctxfiles, obj, procs>>

\* ContextStorage.add_context(name, description)
AddContext(name, description, now) ==
    LET r == add_context(reg, name, description, now)
    IN  /\ reg' = r.reg
        /\ last' = Call("add_context", name, r.raised, FALSE)
        /\ UNCHANGED <<files, hist, limit, hlog, active, ctxfiles, obj, procs>>

\* ContextStorage.delete_context(name)
DeleteContext(name, now) ==
    LET r == delete_context(reg, active, name, now)
    IN  /\ reg' = r.reg
        /\ active' = r.active
        /\ last' = Call("delete_context", name,
                        IF r.raised # "no" THEN r.raised
                        ELSE IF r.ret THEN "True" ELSE "False", FALSE)
        /\ UNCHANGED <<files, hist, limit, hlog, ctxfiles, obj, procs>>

\* ContextStorage.set_active_context(name)
SetActive(name, now) ==
    LET r == set_active_context(reg, active, name, now)
    IN  /\ active' = r.active
        /\ last' = Call("set_active_context", name, r.raised, FALSE)
        /\ UNCHANGED <<files, hist, limit, hlog, reg, ctxfiles, obj, procs>>

\* tix context rename old_name new_name: last.ctx is the new name
RenameContext(old_name, new_name, now) ==
    LET r == rename_context(reg, active, ctxfiles, old_name, new_name, now)
    IN  /\ reg' = r.reg
        /\ active' = r.active
        /\ ctxfiles' = r.ctxfiles
        /\ last' = Call("rename", new_name, r.out, FALSE)
        /\ UNCHANGED <<files, hist, limit, hlog, obj, procs>>

\* tix context switch name
SwitchContext(name, now) ==
    LET r == switch_context(reg, active, ctxfiles, name, now)
    IN  /\ active' = r.active
        /\ ctxfiles' = r.ctxfiles
        /\ last' = Call("switch", name, r.out, FALSE)
        /\ UNCHANGED <<files, hist, limit, hlog, reg, obj, procs>>

\* A registry as ContextStorage() leaves it on a fresh installation; the active
\* pointer is the file the constructor wrote or, for a storage whose
\* active_context_path was set afterwards, a file that does not exist yet.
InitContext ==
    /\ files = [c \in Contexts |-> EmptyFile]
    /\ hist = EmptyHistory
    /\ limit = DefaultLimit
    /\ last = Call("init", "default", "ok", FALSE)
    /\ hlog = <<>>
    /\ reg = FreshRegistry
    /\ active \in {ActAbsent, ActText("default")}
    /\ ctxfiles = {}
    /\ obj = NoObject
    /\ procs = NoProcs

\* every context of this specification is created at the same clock reading and,
\* as add_context(name) does, without a description
NextContext ==
    \/ LoadContexts("t1")
    \/ GetActive
    \/ \E n \in Names : AddContext(n, None, "t1")
    \/ \E n \in Names : DeleteContext(n, "t1")
    \/ \E n \in Names : SetActive(n, "t1")
    \/ \E o \in Names, n \in Names : RenameContext(o, n, "t1")
    \/ \E n \in Names : SwitchContext(n, "t1")

SpecContext == InitContext /\ [][NextContext]_vars

\* The files a ContextStorage can find in place: contexts.json absent, corrupt,
\* of another shape or a registry of up to two contexts; the active pointer
\* absent, unreadable or any name.
FoundRegistries ==
    {BrokenRegistry(f) : f \in {"absent", "corrupt", "other"}}
        \cup {RegistryFile(<<DefaultContext("t0")>>)}
        \cup {RegistryFile(<<DefaultContext("t0"), Context(n, d, "t0")>>) :
                  n \in Names \ {"default"}, d \in Descriptions}

FoundPointers == {ActAbsent, ActUnreadable} \cup {ActText(n) : n \in Names}

InitContextFiles ==
    /\ files = [c \in Contexts |-> EmptyFile]
    /\ hist = EmptyHistory
    /\ limit = DefaultLimit
    /\ last = Call("init", "default", "ok", FALSE)
    /\ hlog = <<>>
    /\ reg \in FoundRegistries
    /\ active \in FoundPointers
    /\ ctxfiles = {}
    /\ obj = NoObject
    /\ procs = NoProcs

NextContextFiles ==
    \/ \E now \in Stamps : LoadContexts(now)
    \/ GetActive

SpecContextFiles == InitContextFiles /\ [][NextContextFiles]_vars

\* ----------------------------------------- undo and redo after a switch
\* TaskStorage._get_active_context: the pointer file's text, stripped; "default"
\* when the file is absent or cannot be read (bare except)
storage_active_context(a) == IF a.st = "text" THEN Strip(a.txt) ELSE "default"

\* an operation is recorded by a command run while default is the active context
RecordInDefault(operation) ==
    /\ storage_active_context(active) = "default"
    /\ Record(operation)

\* tix undo: storage = TaskStorage() is the store of the active context
UndoActive(now) == Undo(storage_active_context(active), now)

\* tix redo on the store of the active context
RedoActive(now) == Redo(storage_active_context(active), now)

NextSwitch ==
    \/ AddContext("work", None, "t1")
    \/ \E n \in Contexts : SwitchContext(n, "t1")
    \/ \E o \in OpInputs : RecordInDefault(o)
    \/ UndoActive("t1")
    \/ RedoActive("t1")

SpecSwitch == InitContext /\ [][NextSwitch]_vars

\* ------------------------------------------------- the Task model alone
\* A test of Task: a Task object is turned into its dictionary, a dictionary
\* into a Task object; src is what the object in hand was made from, <<>> for
\* an object the test built itself.
TaskObject(t, src) == [kind |-> "task", val |-> t, src |-> src]

TaskDict(d, src) == [kind |-> "dict", val |-> d, src |-> src]

Lists == {<<>>, <<"x">>}

\* valid Task objects: every field takes more than one value
TaskValues ==
    {[id |-> i, text |-> x, priority |-> p, completed |-> cd, created_at |-> at,
      completed_at |-> cat, tags |-> tg, attachments |-> att, links |-> ln,
      is_global |-> g] :
        i \in 1..MaxId, x \in Texts, p \in {"low", "medium"}, cd \in BOOLEAN,
        at \in Stamps, cat \in {None, "t1"}, tg \in Lists, att \in Lists,
        ln \in Lists, g \in BOOLEAN}

NewerFields == {"attachments", "links", "is_global"}

\* the dictionary d without the keys of gone
Without(d, gone) == [f \in (DOMAIN d) \ gone |-> d[f]]

\* dictionaries as older versions wrote them: some of the newer fields missing
OldDicts == {Without(to_dict(t), gone) : t \in TaskValues, gone \in SUBSET NewerFields}

\* t.to_dict()
ToDict ==
    /\ obj.kind = "task"
    /\ obj' = TaskDict(to_dict(obj.val), <<obj.val>>)
    /\ last' = Call("to_dict", "default", "ok", FALSE)
    /\ UNCHANGED <<files, hist, limit, hlog, reg, active, ctxfiles, procs>>

\* Task.from_dict(d)
FromDict(now) ==
    /\ obj.kind = "dict"
    /\ obj' = TaskObject(from_dict(obj.val, now), <<obj.val>>)
    /\ last' = Call("from_dict", "default", "ok", FALSE)
    /\ UNCHANGED <<files, hist, limit, hlog, reg, active, ctxfiles, procs>>

InitModels ==
    /\ files = [c \in Contexts |-> EmptyFile]
    /\ hist = EmptyHistory
    /\ limit = DefaultLimit
    /\ last = Call("init", "default", "ok", FALSE)
    /\ hlog = <<>>
    /\ reg = FreshRegistry
    /\ active = ActText("default")
    /\ ctxfiles = {}
    /\ obj \in {TaskObject(t, <<>>) : t \in TaskValues} \cup {TaskDict(d, <<>>) : d \in OldDicts}
    /\ procs = NoProcs

NextModels ==
    \/ ToDict
    \/ \E now \in Stamps : FromDict(now)

SpecModels == InitModels /\ [][NextModels]_vars

\* ------------------------------------------------------------------ claims
InSeq(x, q) == \E i \in 1..Len(q) : q[i] = x

Distinct(q) == \A i, j \in 1..Len(q) : i # j => q[i] # q[j]

Top(q) == q[Len(q)]

\* C1: every add_task call returns a task whose id is not below the file's
\* next_id and is below the next_id written back, and no call ever lowers a
\* file's next_id: the ids add_task returns on one file increase strictly and
\* none is handed out twice, whatever is deleted in between.
C1_AddTaskIdsIncrease ==
    [][/\ \A c \in Contexts :
              files[c].fmt = "envelope" /\ files'[c].fmt = "envelope"
                  => files'[c].next_id >= files[c].next_id
       /\ \A c \in Contexts, x \in Texts :
              AddTask(c, x, FALSE) =>
                  LET pre == read_data(files, c).data.next_id
                      r   == add_task(files, c, x, FALSE)
                  IN  /\ r.raised = "no"
                      /\ Len(r.ret) = 1
                      /\ r.ret[1]["id"] >= pre
                      /\ files'[c].next_id > r.ret[1]["id"]]_vars

\* C2: every task file holds next_id above the ids of all its tasks, and no id twice.
C2_NextIdAboveIdsUnique ==
    \A c \in Contexts :
        files[c].fmt = "envelope" =>
            /\ \A i \in 1..Len(files[c].tasks) : files[c].next_id > StoredIds(files[c])[i]
            /\ Distinct(StoredIds(files[c]))

\* C3: add_task(is_global=True) through the work store returns a task that
\* load_tasks of the work store and of the default store both return afterwards,
\* and that is not in the work file's own tasks.
C3_GlobalAddSeenEverywhere ==
    [][\A x \in Texts :
           AddTask("work", x, TRUE) =>
               LET r == add_task(files, "work", x, TRUE)
               IN  /\ r.raised = "no"
                   /\ Len(r.ret) = 1
                   /\ \A now \in Stamps :
                          /\ InSeq(r.ret[1], load_tasks(files', "work", now).tasks)
                          /\ InSeq(r.ret[1], load_tasks(files', "default", now).tasks)
                   /\ ~InSeq(to_dict(r.ret[1]), files'["work"].tasks)]_vars

\* C4: no file of a context other than default stores a global task.
C4_GlobalOnlyInDefault ==
    \A c \in Contexts \ {"default"} :
        \A i \in 1..Len(files[c].tasks) : ~StoredGlobal(files[c].tasks[i])

\* C4 happens: tix undo in context work has just put a deleted global task back
\* into the list it saved, next to a task the work file keeps.
C4_Witness ==
    /\ last.call = "undo" /\ last.ctx = "work" /\ last.out = "no"
    /\ hist.redo # <<>>
    /\ Top(hist.redo).op = "delete"
    /\ Top(hist.redo).before[1]["is_global"]
    /\ files["work"].tasks # <<>>

\* the calls of the log from position i on are all calls of name
AllFrom(i, name) == \A k \in i..Len(hlog) : hlog[k].call = name

\* the log is n calls of record followed by calls of pop_undo only
RecordsThenPops(n) ==
    /\ n <= Len(hlog)
    /\ \A k \in 1..n : hlog[k].call = "record"
    /\ AllFrom(n + 1, "pop_undo")

\* C5: on a history that was empty, when N <= limit operations were recorded and
\* pop_undo is then called repeatedly, the j-th call returns the operation that
\* was recorded j-th from the end, for j up to N, and every later call returns None.
C5_PopUndoReversesRecords ==
    \A n \in 0..Len(hlog) :
        RecordsThenPops(n) /\ n <= limit =>
            \A j \in 1..(Len(hlog) - n) :
                hlog[n + j].op = IF j <= n THEN hlog[n - j + 1].op ELSE <<>>

\* C5 happens: two different operations were recorded, two calls of pop_undo
\* returned operations and a third call returned None.
C5_Witness ==
    /\ Len(hlog) = 5
    /\ RecordsThenPops(2)
    /\ hlog[1].op # hlog[2].op
    /\ hlog[4].op # <<>>
    /\ hlog[5].op = <<>>

\* C6: after a call of record the redo stack is empty, and a pop_redo called
\* right after a record returns None, also when the redo stack held operations
\* before the record.
C6_RecordClearsRedo ==
    \A i \in 1..Len(hlog) :
        hlog[i].call = "record" =>
            /\ i = Len(hlog) => hist.redo = <<>> /\ pop_redo(hist).ret = <<>>
            /\ i < Len(hlog) /\ hlog[i + 1].call = "pop_redo" => hlog[i + 1].op = <<>>

\* C6 happens: a pop_undo returned an operation, so the redo stack held it; then
\* came a record and then a pop_redo.
C6_Witness ==
    \E i \in 1..Len(hlog) :
        /\ i + 2 = Len(hlog)
        /\ hlog[i].call = "pop_undo" /\ hlog[i].op # <<>>
        /\ hlog[i + 1].call = "record"
        /\ hlog[i + 2].call = "pop_redo"

\* C7: the undo stack never holds more than limit operations, limit being 10
\* unless the HistoryManager was built with another one; a record on a full stack
\* drops the oldest entry only, and every record leaves the entries it keeps in
\* their order with the recorded operation on top.
C7_UndoBounded ==
    [][/\ Len(hist'.undo) <= limit'
       /\ DefaultLimit = 10
       /\ \A o \in HistOps :
              HRecord(o) =>
                  hist'.undo = IF Len(hist.undo) >= limit
                               THEN Append(Tail(hist.undo), o)
                               ELSE Append(hist.undo, o)]_vars

\* C7 happens: with limit 2, three operations were recorded, the first unlike the
\* second, and the undo stack holds the second and the third.
C7_Witness ==
    /\ limit = 2
    /\ Len(hlog) = 3
    /\ AllFrom(1, "record")
    /\ hlog[1].op # hlog[2].op
    /\ hist.undo = hlog[2].op \o hlog[3].op

\* get_task(id) in context c on the files fs: None as <<>>, a task as <<task>>
Found(fs, c, id) == get_task(fs, c, id, "t1").ret

\* C8: tix undo reverses the operation on top of the undo stack: undoing the add
\* of a task that is in the store leaves get_task(id) None; undoing the delete of
\* a task that is not in the store leaves get_task(id) the before snapshot;
\* undoing an update of a task that is in the store leaves get_task(id) the
\* before snapshot.
C8_UndoReverses ==
    [][\A c \in Contexts :
           Undo(c, "t1") /\ hist.undo # <<>> =>
               LET op == Top(hist.undo)
               IN  /\ op.op = "add" /\ Found(files, c, op.after[1]["id"]) # <<>>
                          => Found(files', c, op.after[1]["id"]) = <<>>
                   /\ op.op = "delete" /\ Found(files, c, op.before[1]["id"]) = <<>>
                          => Found(files', c, op.before[1]["id"]) = <<from_dict(op.before[1], "t1")>>
                   /\ op.op = "update" /\ Found(files, c, op.before[1]["id"]) # <<>>
                          => Found(files', c, op.before[1]["id"]) = <<from_dict(op.before[1], "t1")>>]_vars

\* C9: tix redo applies the operation on top of the redo stack again: redoing an
\* add leaves get_task(id) the after snapshot, redoing a delete leaves
\* get_task(id) None, redoing an update leaves get_task(id) the after snapshot.
C9_RedoReapplies ==
    [][\A c \in Contexts :
           Redo(c, "t1") /\ hist.redo # <<>> =>
               LET op == Top(hist.redo)
               IN  /\ op.op = "add" /\ Found(files, c, op.after[1]["id"]) = <<>>
                          => Found(files', c, op.after[1]["id"]) = <<from_dict(op.after[1], "t1")>>
                   /\ op.op = "delete" /\ Found(files, c, op.before[1]["id"]) # <<>>
                          => Found(files', c, op.before[1]["id"]) = <<>>
                   /\ op.op = "update" /\ Found(files, c, op.after[1]["id"]) # <<>>
                          => Found(files', c, op.after[1]["id"]) = <<from_dict(op.after[1], "t1")>>]_vars

\* the entries of a bare array that are dictionaries
Dicts(items) == SelectSeq(items, LAMBDA e : e.k # "nondict")

\* C10: load_tasks on a file that holds a bare array leaves the file an envelope,
\* and the next load_tasks returns one task for each dictionary of the array, in
\* the array's order and with its text, every id a positive integer and no id twice.
C10_LegacyUpgrade ==
    [][\A c \in Contexts, now \in Stamps :
           Load(c, now) /\ files[c].fmt = "legacy" =>
               LET again == load_tasks(files', c, now).tasks
                   ids   == [i \in 1..Len(again) |-> again[i]["id"]]
                   was   == Dicts(files[c].items)
               IN  /\ files'[c].fmt = "envelope"
                   /\ Len(again) = Len(was)
                   /\ \A i \in 1..Len(again) : again[i]["text"] = was[i].text
                   /\ \A i \in 1..Len(ids) : ids[i] \in Nat \ {0}
                   /\ Distinct(ids)]_vars

\* the largest id stored in the task file f, 0 when it stores no task
RECURSIVE MaxIdFrom(_, _)
MaxIdFrom(ids, i) == IF i > Len(ids) THEN 0 ELSE MaxOf(ids[i], MaxIdFrom(ids, i + 1))

MaxStoredId(f) == MaxIdFrom(StoredIds(f), 1)

\* C11: the load_tasks that upgrades a bare array leaves next_id one above the
\* largest id of the upgraded tasks (1 for an array without dictionaries), and
\* the add_task that follows returns a task with that id.
C11_UpgradeNextId ==
    [][\A c \in Contexts, now \in Stamps :
           Load(c, now) /\ files[c].fmt = "legacy" =>
               LET a == add_task(files', c, "a", FALSE)
               IN  /\ files'[c].next_id = MaxStoredId(files'[c]) + 1
                   /\ a.raised = "no"
                   /\ Len(a.ret) = 1
                   /\ a.ret[1]["id"] = MaxStoredId(files'[c]) + 1]_vars

\* C12: a load_tasks that follows a load_tasks of the same store, at whatever
\* time, returns the list the first one returned and leaves every file as the
\* first one left it.
C12_LoadIdempotent ==
    [][\A c \in Contexts, now \in Stamps :
           Load(c, now) =>
               \A later \in Stamps :
                   LET first  == load_tasks(files, c, now)
                       second == load_tasks(files', c, later)
                   IN  /\ second.tasks = first.tasks
                       /\ second.fs = files']_vars

\* C13: for every Task t, from_dict(to_dict(t)), whenever it is called, has t's
\* value in each of the ten fields.
C13_RoundTrip ==
    [][ToDict =>
           \A now \in Stamps :
               LET back == from_dict(obj'.val, now)
               IN  /\ DOMAIN back = TaskFields
                   /\ \A f \in TaskFields : back[f] = obj.val[f]]_vars

\* C13 happens: the dictionary in hand was made by to_dict from a task whose
\* lists are not empty, that is global, completed and of priority low.
C13_Witness ==
    /\ last.call = "to_dict"
    /\ obj.kind = "dict"
    /\ obj.src # <<>>
    /\ obj.src[1]["links"] # <<>> /\ obj.src[1]["attachments"] # <<>> /\ obj.src[1]["tags"] # <<>>
    /\ obj.src[1]["is_global"] /\ obj.src[1]["completed"] /\ obj.src[1]["priority"] = "low"
    /\ obj.src[1]["completed_at"] # None

\* C14: from_dict of a dictionary that lacks some of attachments, links and
\* is_global returns a Task with [] for a missing attachments, [] for a missing
\* links, false for a missing is_global, and the dictionary's value in every
\* field the dictionary has.
C14_MissingNewerFields ==
    [][\A now \in Stamps :
           FromDict(now) /\ NewerFields \ DOMAIN obj.val # {} =>
               /\ obj'.kind = "task"
               /\ DOMAIN obj'.val = TaskFields
               /\ "attachments" \notin DOMAIN obj.val => obj'.val["attachments"] = <<>>
               /\ "links" \notin DOMAIN obj.val => obj'.val["links"] = <<>>
               /\ "is_global" \notin DOMAIN obj.val => obj'.val["is_global"] = FALSE
               /\ \A f \in DOMAIN obj.val : obj'.val[f] = obj.val[f]]_vars

\* C14 happens: from_dict has returned a Task made from a dictionary without
\* attachments, links and is_global whose other fields are not the defaults.
C14_Witness ==
    /\ last.call = "from_dict"
    /\ obj.kind = "task"
    /\ obj.src # <<>>
    /\ NewerFields \cap DOMAIN obj.src[1] = {}
    /\ obj.src[1]["priority"] = "low" /\ obj.src[1]["completed"] /\ obj.src[1]["tags"] # <<>>
    /\ obj.val["attachments"] = <<>>

\* the names registered in contexts.json, as load_contexts gives them
Registered(r) == ContextNames(load_contexts(r, "t1"))

\* C15: load_contexts on a contexts.json that is absent or not JSON returns the
\* one context default and raises nothing, and get_active_context returns
\* "default" when the active_context file is absent or cannot be read.
C15_RegistryRecovers ==
    [][/\ \A now \in Stamps :
              LoadContexts(now) /\ reg.fmt \in {"absent", "corrupt"} =>
                  LET contexts == load_contexts(reg, now)
                  IN  Len(contexts) = 1 /\ contexts[1].name = "default"
       /\ GetActive /\ active.st \in {"absent", "unreadable"} =>
              last'.out = "no" /\ last'.ctx = "default"]_vars

\* C16: add_context(name) raises ValueError exactly when name itself, letter
\* case included, is registered, and then contexts.json and the active pointer
\* are as before.
C16_DuplicateName ==
    [][\A n \in Names, d \in Descriptions :
           AddContext(n, d, "t1") =>
               /\ last'.out = "ValueError" <=> n \in Registered(reg)
               /\ last'.out = "ValueError" => reg' = reg /\ active' = active
               /\ last'.out # "ValueError" => n \in Registered(reg')]_vars

\* C16 happens: add_context("Work") was refused while work and Work are both
\* registered, so Work was accepted once next to work and refused the second time.
C16_Witness ==
    /\ last.call = "add_context" /\ last.ctx = "Work" /\ last.out = "ValueError"
    /\ {"work", "Work"} \subseteq Registered(reg)
    /\ active = ActText("work")

\* C17: default is registered in every state; delete_context("default") raises
\* ValueError and tix context rename default is refused, and both leave
\* contexts.json and the active pointer as they were.
C17_DefaultAlwaysRegistered ==
    /\ []("default" \in Registered(reg) /\ reg.fmt = "registry")
    /\ [][/\ DeleteContext("default", "t1") =>
                 last'.out = "ValueError" /\ reg' = reg /\ active' = active
          /\ \A n \in Names :
                 RenameContext("default", n, "t1") =>
                     last'.out = "refused" /\ reg' = reg /\ active' = active]_vars

\* C17 happens: delete_context("default") was refused on a registry of three
\* contexts while another context is active.
C17_Witness ==
    /\ last.call = "delete_context" /\ last.ctx = "default" /\ last.out = "ValueError"
    /\ Len(reg.contexts) = 3
    /\ active = ActText("Work")

\* C18: delete_context of a registered context other than default that the
\* active pointer names leaves get_active_context "default"; delete_context of
\* any other name leaves get_active_context what it was.
C18_DeleteActiveResets ==
    [][\A n \in Names \ {"default"} :
           DeleteContext(n, "t1") =>
               IF n \in Registered(reg) /\ active = ActText(n)
               THEN get_active_context(active').ret = "default"
               ELSE get_active_context(active').ret = get_active_context(active).ret]_vars

\* C19: get_active_context returns the name of a registered context in every state.
C19_ActiveIsRegistered ==
    /\ get_active_context(active).raised = "no"
    /\ get_active_context(active).ret \in Registered(reg)

\* C20: set_active_context(name) raises ValueError when name is not registered
\* and then leaves the active pointer as it was; when name is registered,
\* get_active_context returns name afterwards.
C20_SetActive ==
    [][\A n \in Names :
           SetActive(n, "t1") =>
               IF n \in Registered(reg)
               THEN /\ last'.out = "no"
                    /\ get_active_context(active').ret = n
               ELSE /\ last'.out = "ValueError"
                    /\ active' = active]_vars

\* C21: delete_context(name), name not default, returns True exactly when name
\* was registered; then get_context(name) is None and every other registered
\* name is still registered, with its context as it was. It returns False when
\* name was not registered, and then contexts.json and the active pointer are as
\* before.
C21_DeleteContext ==
    [][\A n \in Names \ {"default"} :
           DeleteContext(n, "t1") =>
               IF n \in Registered(reg)
               THEN /\ last'.out = "True"
                    /\ get_context(reg', n, "t1") = <<>>
                    /\ \A m \in Registered(reg) \ {n} :
                           get_context(reg', m, "t1") = get_context(reg, m, "t1")
                    /\ Registered(reg') = Registered(reg) \ {n}
               ELSE /\ last'.out = "False"
                    /\ reg' = reg
                    /\ active' = active]_vars

\* C21 happens: delete_context("work") returned True on a registry that keeps
\* Work and default.
C21_Witness ==
    /\ last.call = "delete_context" /\ last.ctx = "work" /\ last.out = "True"
    /\ Registered(reg) = {"default", "Work"}

\* what TaskStorage(context=c) reads from its own file: its tasks and next_id
Stored(fs, c) == read_data(fs, c).data

\* C22: delete_task(id) returns True exactly when it removed a task; after a
\* True, get_task(id) of the same store gives None, in a non-default context
\* too; after a False, no task file holds other tasks or another next_id
C22_DeleteReturnsRemoval ==
    [][\A c \in Contexts, id \in 1..MaxId :
           Delete(c, id, "t1") =>
               IF last'.out = "True"
               THEN get_task(files', c, id, "t1").ret = <<>>
               ELSE \A d \in Contexts : Stored(files', d) = Stored(files, d)]_vars

\* the tasks TaskStorage(context=c) shows: its own and, off default, the global ones
Visible(fs, c) == load_tasks(fs, c, "t1").tasks

\* C23: update_task with a task whose id no visible task has raises nothing and
\* leaves the tasks and next_id of every context's file as they were
C23_UpdateUnknownIsNoOp ==
    [][\A c \in Contexts, t \in Pool, now \in Stamps :
           (Update(c, t, now) /\ SelectIdx(Visible(files, c), t["id"], 1) = <<>>) =>
               /\ last'.out = "ok"
               /\ \A d \in Contexts : Stored(files', d) = Stored(files, d)]_vars

\* update_task ran in "work" with an id that only a task of default, not global
\* and so not visible in "work", carries
C23_Witness ==
    /\ last.call = "update_task" /\ last.ctx = "work"
    /\ Stored(files, "work").tasks = <<>>
    /\ Len(Stored(files, "default").tasks) = 1
    /\ ~StoredGlobal(Stored(files, "default").tasks[1])

\* C24: after update_task(t) for a t whose id a visible task has, get_task(t.id)
\* returns t; add_task on an empty default file stores task 1, not completed and
\* of medium priority, and after mark_done and update_task the task get_task
\* returns is completed and has a completed_at
C24_UpdateThenGet ==
    [][/\ \A c \in Contexts, t \in Pool, now \in Stamps :
              (Update(c, t, now) /\ SelectIdx(Visible(files, c), t["id"], 1) # <<>>) =>
                  get_task(files', c, t["id"], now).ret = <<t>>
       /\ \A x \in Texts :
              (AddTask("default", x, FALSE) /\ Stored(files, "default").tasks = <<>>) =>
                  /\ last'.out = "ok"
                  /\ Len(Visible(files', "default")) = 1
                  /\ Visible(files', "default")[1]["id"] = 1
                  /\ ~Visible(files', "default")[1]["completed"]
                  /\ Visible(files', "default")[1]["priority"] = "medium"
       /\ \A c \in Contexts, id \in 1..MaxId, now \in Stamps :
              (Done(c, id, now) /\ last'.out = "completed") =>
                  LET g == get_task(files', c, id, now).ret
                  IN  /\ g # <<>>
                      /\ g[1]["completed"]
                      /\ g[1]["completed_at"] # None]_vars

\* C25: add_task(text, is_global=True) through the store of a context other than
\* default leaves that context's tasks and next_id as they were; default's file
\* gains the task at its end, with default's next_id as id, and its next_id
\* grows by one
C25_GlobalAddRedirected ==
    [][\A c \in Contexts \ {"default"}, x \in Texts :
           AddTask(c, x, TRUE) =>
               LET before == Stored(files, "default")
                   after  == Stored(files', "default")
               IN  /\ last'.out = "ok"
                   /\ Stored(files', c) = Stored(files, c)
                   /\ after.next_id = before.next_id + 1
                   /\ Len(after.tasks) = Len(before.tasks) + 1
                   /\ SubSeq(after.tasks, 1, Len(before.tasks)) = before.tasks
                   /\ after.tasks[Len(after.tasks)]["id"] = before.next_id
                   /\ after.tasks[Len(after.tasks)]["text"] = x
                   /\ StoredGlobal(after.tasks[Len(after.tasks)])]_vars

\* C26: load_tasks, get_task, save_tasks, update_task and delete_task through the
\* store of a context other than default, and the done command built from them,
\* leave the tasks and next_id of default's file as they were
C26_MergeIsReadOnly ==
    [][(last'.ctx # "default" /\ last'.call # "add_task") =>
           Stored(files', "default") = Stored(files, "default")]_vars

\* the done command ran in "work" on a global task of default's file: "work"
\* holds no task of its own
C26_Witness ==
    /\ last.call = "done" /\ last.ctx = "work" /\ last.out = "completed"
    /\ Stored(files, "work").tasks = <<>>
    /\ Len(Stored(files, "default").tasks) = 1
    /\ StoredGlobal(Stored(files, "default").tasks[1])

\* files with context c's file replaced by the empty envelope
AsEmpty(fs, c) == [fs EXCEPT ![c] = EmptyFile]

\* C27: on a task file that is missing, not parsable or wrongly shaped, load_tasks
\* raises nothing and returns what it returns on the empty envelope (no task of
\* the context, plus default's global tasks), and save_tasks writes what it
\* writes on the empty envelope
C27_BrokenTaskFile ==
    [][\A c \in Contexts :
           files[c] \in BrokenFiles =>
               /\ Load(c, "t1") =>
                      /\ last'.out = "ok"
                      /\ load_tasks(files, c, "t1").tasks
                             = load_tasks(AsEmpty(files, c), c, "t1").tasks
               /\ \A tasks \in SaveLists :
                      Save(c, tasks) =>
                          /\ last'.out = "ok"
                          /\ files' = save_tasks(AsEmpty(files, c), c, tasks)]_vars

\* C28: on a history file that is missing, not parsable or wrongly shaped,
\* record, pop_undo and pop_redo raise nothing and do what they do on
\* {"undo": [], "redo": []}
C28_BrokenHistoryFile ==
    []["broken" \in DOMAIN hist =>
           /\ \A o \in HistOps :
                  HRecord(o) => last'.out = "ok" /\ hist' = record(EmptyHistory, o, limit)
           /\ HPopUndo => last'.out = "None" /\ hist' = EmptyHistory
           /\ HPopRedo => last'.out = "None" /\ hist' = EmptyHistory]_vars

\* s without its last entry
ButTop(s) == SubSeq(s, 1, Len(s) - 1)

\* C29: pop_undo on a non-empty undo stack takes off exactly its top entry, puts
\* that entry on top of redo and returns it; pop_redo does the same from redo to
\* undo; on an empty source stack each returns None and leaves both stacks as
\* they were
C29_PopMovesTop ==
    [][/\ HPopUndo =>
              IF hist.undo # <<>>
              THEN /\ hist'.undo = ButTop(hist.undo)
                   /\ hist'.redo = Append(hist.redo, Top(hist.undo))
                   /\ hlog'[Len(hlog')].op = <<Top(hist.undo)>>
              ELSE /\ hist' = hist
                   /\ last'.out = "None" /\ hlog'[Len(hlog')].op = <<>>
       /\ HPopRedo =>
              IF hist.redo # <<>>
              THEN /\ hist'.redo = ButTop(hist.redo)
                   /\ hist'.undo = Append(hist.undo, Top(hist.redo))
                   /\ hlog'[Len(hlog')].op = <<Top(hist.redo)>>
              ELSE /\ hist' = hist
                   /\ last'.out = "None" /\ hlog'[Len(hlog')].op = <<>>]_vars

\* pop_redo returned an entry while another one stayed on the redo stack
C29_Witness ==
    /\ last.call = "pop_redo" /\ last.out = "ok"
    /\ hist.redo # <<>>
    /\ hlog[Len(hlog)].op = <<Top(hist.undo)>>

\* C30: tix add with an empty text or a text of blanks ends with an error and
\* leaves every task file and the history as they were
C30_AddBlankText ==
    [][\A c \in Contexts, task \in {"", "   "} :
           Add(c, task) =>
               /\ last'.out = "SystemExit"
               /\ files' = files
               /\ hist' = hist]_vars

\* tix add was refused while the store held a task and the history an operation
C30_Witness ==
    /\ last.call = "add" /\ last.out = "SystemExit"
    /\ files[last.ctx].tasks # <<>>
    /\ hist.undo # <<>>

\* C31: tix undo changes the history only by moving the top entry of undo onto
\* redo, tix redo only by moving the top entry of redo onto undo; neither
\* records, neither empties the redo stack, so every undo that found an entry
\* leaves one more entry for redo
C31_ReplayNeverRecords ==
    [][\A c \in Contexts :
           /\ Undo(c, "t1") =>
                  IF hist.undo = <<>> THEN hist' = hist
                  ELSE /\ hist'.undo = ButTop(hist.undo)
                       /\ hist'.redo = Append(hist.redo, Top(hist.undo))
           /\ Redo(c, "t1") =>
                  IF hist.redo = <<>> THEN hist' = hist
                  ELSE /\ hist'.redo = ButTop(hist.redo)
                       /\ hist'.undo = Append(hist.undo, Top(hist.redo))]_vars

\* two undos, then a redo: one undone entry is still there to redo
C31_Witness ==
    /\ last.call = "redo" /\ last.out # "None"
    /\ Len(hist.undo) = 1 /\ Len(hist.redo) = 1

\* the shape of an operation: add has after only, delete before only, update both
WellFormed(o) ==
    /\ o.op \in {"add", "delete", "update"}
    /\ (o.op = "add") => (o.before = <<>> /\ Len(o.after) = 1)
    /\ (o.op = "delete") => (Len(o.before) = 1 /\ o.after = <<>>)
    /\ (o.op = "update") => (Len(o.before) = 1 /\ Len(o.after) = 1)

\* the undo stack gained exactly one well-formed operation of that kind
Pushed(kind) ==
    /\ Len(hist'.undo) = Len(hist.undo) + 1
    /\ ButTop(hist'.undo) = hist.undo
    /\ Top(hist'.undo).op = kind
    /\ WellFormed(Top(hist'.undo))

\* C32: every operation on the undo or redo stack is well formed, and each
\* add_task, each update_task that finds its task and each delete_task that
\* removes one pushes exactly one operation of its kind
C32_OperationsWellFormed ==
    /\ [](\A i \in 1..Len(hist.undo) : WellFormed(hist.undo[i]))
    /\ [](\A i \in 1..Len(hist.redo) : WellFormed(hist.redo[i]))
    /\ [][/\ \A c \in Contexts, g \in BOOLEAN :
                (AddTask(c, "b", g) /\ last'.out = "ok") => Pushed("add")
          /\ \A c \in Contexts, t \in Pool :
                (Update(c, t, "t1") /\ SelectIdx(Visible(files, c), t["id"], 1) # <<>>)
                    => Pushed("update")
          /\ \A c \in Contexts, id \in 1..MaxId :
                (Delete(c, id, "t1") /\ last'.out = "True") => Pushed("delete")]_vars

\* both add_task calls are over
Finished == \A p \in Procs : procs[p].pc \in {"returned", "raised"}

\* each process read the file before the other had finished
Raced == \A p \in Procs : procs[p].early

\* both calls returned a task with the same id, and the file holds the task of
\* one of them only
LostUpdate ==
    /\ \A p \in Procs : procs[p].pc = "returned"
    /\ procs["p1"].ret[1]["id"] = procs["p2"].ret[1]["id"]
    /\ \E w \in Procs :
           /\ InSeq(to_dict(procs[w].ret[1]), Stored(files, procs[w].ctx).tasks)
           /\ \A q \in Procs \ {w} :
                  ~InSeq(to_dict(procs[q].ret[1]), Stored(files, procs[q].ctx).tasks)

\* C33: when two processes run add_task on the same context file and each reads
\* the file before the other has written, both calls return the same id and
\* only the last writer's task is in the file
C33_LostUpdate == (Finished /\ Raced) => LostUpdate

\* C34: the undo and the redo stack together never hold more entries than the
\* limit, so pop_redo, which does not truncate, cannot push undo beyond it
C34_StacksWithinCapacity == Len(hist.undo) + Len(hist.redo) <= limit

\* pop_redo has just filled the undo stack up to the limit
C34_Witness ==
    /\ last.call = "pop_redo" /\ last.out = "ok"
    /\ Len(hist.undo) = limit
    /\ limit > 1

\* the store of context c is as operation op left it: the task of an add or an
\* update is there with its after snapshot, the task of a delete is not there
Applied(fs, c, op) ==
    IF op.op = "delete" THEN Found(fs, c, op.before[1]["id"]) = <<>>
    ELSE Found(fs, c, op.after[1]["id"]) = <<from_dict(op.after[1], "t1")>>

\* C35: tix undo followed at once by tix redo leaves the context's task file (its
\* tasks in their order, its next_id) and both history stacks as they were before
\* the undo, for an operation of kind add, update or delete; the redo is the one
\* the state after the undo gives
C35_UndoRedoIdentity ==
    [][\A c \in Contexts :
           (Undo(c, "t1") /\ hist.undo # <<>> /\ Applied(files, c, Top(hist.undo))) =>
               LET p == pop_redo(hist')
                   r == apply(files', c, p.ret[1], "t1")
               IN  /\ p.h = hist
                   /\ Stored(r.fs, c) = Stored(files, c)]_vars

\* the ids of the tasks stored in context c's file
IdsIn(fs, c) == {Stored(fs, c).tasks[i]["id"] : i \in 1..Len(Stored(fs, c).tasks)}

\* the stored tasks of context c's file whose id is not id
Others(fs, c, id) == SelectSeq(Stored(fs, c).tasks, LAMBDA d : d["id"] # id)

\* C36: update_task(t) neither adds nor removes a task: the ids stored in the
\* context's file are the same before and after, and every stored task with
\* another id keeps its fields, in default and in another context, also when t
\* is a global task seen from another context
C36_UpdateKeepsIds ==
    [][\A c \in Contexts, t \in Pool, now \in Stamps :
           Update(c, t, now) =>
               /\ IdsIn(files', c) = IdsIn(files, c)
               /\ Others(files', c, t["id"]) = Others(files, c, t["id"])]_vars

\* the ids of a list of tasks, in order
IdsOf(tasks) == [i \in 1..Len(tasks) |-> tasks[i]["id"]]

\* C37: the list load_tasks gives in a context other than default, its own tasks
\* followed by default's global tasks, never holds two tasks with the same id
C37_MergedIdsUnique ==
    \A c \in Contexts \ {"default"} : Distinct(IdsOf(Visible(files, c)))

\* C38: an operation recorded while default was the active context is replayed
\* on default's file only: after a switch to "work", tix undo and tix redo leave
\* the tasks and next_id of work's file as they were
C38_ReplayStaysInContext ==
    [][(Undo("work", "t1") \/ Redo("work", "t1")) =>
           Stored(files', "work") = Stored(files, "work")]_vars

\* C39: however add_context, delete_context and tix context rename follow one
\* another, the contexts of contexts.json have pairwise different names
C39_UniqueNames ==
    LET contexts == load_contexts(reg, "t1")
    IN  \A i, j \in 1..Len(contexts) :
            i # j => contexts[i].name # contexts[j].name

\* C39 happens: a rename went through on a registry of three contexts, after
\* two additions
C39_Witness ==
    /\ last.call = "rename" /\ last.out = "ok"
    /\ Len(reg.contexts) = 3
    /\ "Work" \in Registered(reg)

====
